---- MODULE Spec2Model ----
(***************************************************************************)
(* Verification model of the shipping-quote agent loop.                    *)
(*                                                                         *)
(*   runner2.py  run_agentic / validate_toolcall / call_tool /             *)
(*               extract_json_objects                                      *)
(*   runner3.py  run_agentic / call_tool / extract_json_objects            *)
(*                                                                         *)
(* Both variants of run_agentic are modelled; `variant` says which one a   *)
(* behaviour executes.  The language model and the remote server are       *)
(* external: each model reply is any sequence of extracted objects, each   *)
(* remote answer any (status, body) pair, or no answer at all.             *)
(***************************************************************************)
EXTENDS Integers, Sequences, FiniteSets, TLC

\* ------------------------------------------------------------------ bounds
MaxRounds == 2
MaxObjs == 2
MaxSegs == 3
MaxRawLen == 5
\* stands for the decoder's limit on the digits of an integer literal
DigitLimit == 3

\* ------------------------------------------------------- program constants
HttpOk == 200
HttpServerError == 500
HttpUnprocessable == 422
MinNameLen == 2
CountryLen == 2
MinPostalLen == 3
MaxPostalLen == 12
MinWeightKg == 0
MaxWeightKg == 50

\* res.get("http") of a result that has no "http" key
NoHttp == 0 - 1

ToolNames == {"resolve_country", "resolve_postal_code", "get_shipping_quote"}

\* runner3: the tool table built in __main__ from the three operation ids
tools == ToolNames

Sentinel == "(keine bisherigen Aufrufe)"

\* ------------------------------------------------- extracted objects (dicts)
\* An argument mapping.  kind: "dict" (a JSON object), "null" (the key is
\* present but its value is no object) or "absent" (no "args" key).
\* keys: the keys of the dict; the other fields are the values of those keys
\* (lengths of strings, weight in tenths of a kilogram).
Args(kind, keys, nl, cl, pl, w, service, mode) ==
    [kind |-> kind, keys |-> keys, name_len |-> nl, country_len |-> cl,
     postal_len |-> pl, weight_x10 |-> w, service |-> service, mode |-> mode,
     city_len |-> 0, value |-> ""]

QuoteKeys == {"country", "postal_code", "weight_kg", "service"}

ArgsQuoteA == Args("dict", QuoteKeys, 0, 2, 5, 10, "express", "")
ArgsQuoteB == Args("dict", QuoteKeys \ {"service"}, 0, 2, 5, 499, "", "")
ArgsQuoteHeavy == Args("dict", QuoteKeys, 0, 2, 5, 500, "standard", "")
ArgsCountry == Args("dict", {"name"}, 11, 0, 0, 0, "", "")
ArgsNull == Args("null", {}, 0, 0, 0, 0, "", "")
ArgsAbsent == Args("absent", {}, 0, 0, 0, 0, "", "")
\* obj.get("args", {}) of an object without the key
ArgsEmpty == Args("dict", {}, 0, 0, 0, 0, "", "")

Obj(t, a) == [tool_name |-> t, args |-> a]

\* The replies' objects.  tool_name "" stands for a missing, null or empty
\* tool_name; "foo" for a name outside the three operations.
Objects ==
    { Obj("get_shipping_quote", ArgsQuoteA),
      Obj("get_shipping_quote", ArgsQuoteB),
      Obj("get_shipping_quote", ArgsQuoteHeavy),
      Obj("get_shipping_quote", ArgsNull),
      Obj("resolve_country", ArgsCountry),
      Obj("resolve_postal_code", ArgsAbsent),
      Obj("foo", ArgsCountry),
      Obj("", ArgsCountry) }

SeqsUpTo(S, n) == UNION { [1..m -> S] : m \in 0..n }

\* The objects of the replies in a run against the server of main.py: the
\* argument values on both sides of every limit of the validator.  A field
\* whose key is absent keeps the value Args gives it.
Absent == "absent"

QuoteArgsSamples ==
    { Args("dict",
           {"country", "postal_code", "weight_kg"} \cup (IF sv = Absent THEN {} ELSE {"service"}),
           0, cl, pl, w, IF sv = Absent THEN "" ELSE sv, "") :
        cl \in {CountryLen, CountryLen + 1},
        pl \in {MinPostalLen - 1, MinPostalLen, MaxPostalLen, MaxPostalLen + 1},
        w \in {MinWeightKg * 10, MinWeightKg * 10 + 1, MaxWeightKg * 10 - 1, MaxWeightKg * 10},
        sv \in {Absent, "express", "overnight"} }
    \cup { Args("dict", QuoteKeys \ {key}, 0, CountryLen, MinPostalLen, MaxWeightKg * 10 - 1, "standard", "") :
             key \in {"country", "postal_code", "weight_kg"} }
    \cup { Args("dict", QuoteKeys, 0, CountryLen - 1, MinPostalLen, MaxWeightKg * 10 - 1, "standard", "") }

\* country and city: absent, the empty string, or a string; value: absent,
\* digits or letters; mode: absent, one of the two modes, or another word.
PostalArgsSamples ==
    { [Args("dict",
            (IF c = Absent THEN {} ELSE {"country"}) \cup (IF ci = Absent THEN {} ELSE {"city"})
              \cup (IF v = Absent THEN {} ELSE {"value"}) \cup (IF md = Absent THEN {} ELSE {"mode"}),
            0, IF c = "DE" THEN CountryLen ELSE 0, 0, 0, "", IF md = Absent THEN "" ELSE md)
         EXCEPT !.city_len = IF ci = "Berlin" THEN 6 ELSE 0,
                !.value = IF v = Absent THEN "" ELSE v] :
        c \in {Absent, "", "DE"},
        ci \in {Absent, "", "Berlin"},
        v \in {Absent, "digits", "letters"},
        md \in {Absent, "lookup_city", "validate_postal", "guess"} }

\* quote calls that come two in a reply: a light parcel, one just under the
\* weight limit and one at the limit
MockQuotePairs ==
    [1..2 -> { Obj("get_shipping_quote",
                   Args("dict", QuoteKeys, 0, CountryLen, MinPostalLen, w, "express", "")) :
                 w \in {MinWeightKg * 10 + 1, MaxWeightKg * 10 - 1, MaxWeightKg * 10} }]

MockObjects ==
    { Obj("get_shipping_quote", a) : a \in QuoteArgsSamples }
    \cup { Obj("resolve_postal_code", a) : a \in PostalArgsSamples }
    \cup { Obj("resolve_country", ArgsCountry),
           Obj("resolve_country", Args("dict", {"name"}, MinNameLen - 1, 0, 0, 0, "", "")),
           Obj("resolve_postal_code", ArgsAbsent),
           Obj("foo", ArgsCountry) }

\* --------------------------------------------------------- remote answers
\* What requests.post meets: no answer (connection refused, timeout) or an
\* HTTP response with a status and a body that is JSON or not.
Statuses == {HttpOk, HttpServerError}
Bodies == {"payload", "not_json"}
Unreachable == [reached |-> FALSE, status |-> 0, body |-> ""]
Responses ==
    {Unreachable} \cup
    { [reached |-> TRUE, status |-> s, body |-> b] : s \in Statuses, b \in Bodies }

\* ------------------------------------------------------------ main.py
MockAnswer(b) == [reached |-> TRUE, status |-> HttpOk, body |-> b]

\* resolve_country: the alias table gives a code or not_found
resolve_country(a) == { MockAnswer("iso2"), MockAnswer("not_found") }

\* resolve_postal: validate_postal looks at value only; lookup_city needs
\* country and city, then the city table gives a postal code or not_found
resolve_postal(a) ==
    LET mode == IF "mode" \in a.keys THEN a.mode ELSE "lookup_city" IN
    IF mode = "validate_postal"
    THEN IF "value" \in a.keys /\ a.value = "digits"
         THEN { MockAnswer("postal_code") }
         ELSE { MockAnswer("not_a_postal_code") }
    ELSE IF ~("country" \in a.keys /\ a.country_len > 0) \/ ~("city" \in a.keys /\ a.city_len > 0)
         THEN { MockAnswer("missing_country_or_city") }
         ELSE { MockAnswer("postal_code"), MockAnswer("not_found") }

\* a faulty ShippingQuoteRequest: the server's weight limit is one step lower
ShippingQuoteRequest_LowerLimit(a) ==
    /\ "country" \in a.keys
    /\ a.country_len >= CountryLen /\ a.country_len <= CountryLen
    /\ "postal_code" \in a.keys
    /\ a.postal_len >= MinPostalLen /\ a.postal_len <= MaxPostalLen
    /\ "weight_kg" \in a.keys
    /\ a.weight_x10 > MinWeightKg * 10 /\ a.weight_x10 < MaxWeightKg * 10 - 1
    /\ ("service" \in a.keys => a.service \in {"standard", "express"})

\* the request model of /v1/shipping/quote
ShippingQuoteRequest(a) ==
    /\ "country" \in a.keys
    /\ a.country_len >= 2 /\ a.country_len <= 2
    /\ "postal_code" \in a.keys
    /\ a.postal_len >= 3 /\ a.postal_len <= 12
    /\ "weight_kg" \in a.keys
    /\ a.weight_x10 > 0 /\ a.weight_x10 < 500
    /\ ("service" \in a.keys => a.service \in {"standard", "express"})

\* get_shipping_quote: the price of calc_quote; a body that the request
\* model of the payload parameter refuses is answered by the framework
\* with 422 before the handler runs
get_shipping_quote(a) ==
    IF ShippingQuoteRequest(a)
    THEN { MockAnswer("price") }
    ELSE { [reached |-> TRUE, status |-> HttpUnprocessable, body |-> "payload"] }

\* the answers of the server to a request that its request models accept
MockServer(tool_name, a) ==
    CASE tool_name = "resolve_country" -> resolve_country(a)
      [] tool_name = "resolve_postal_code" -> resolve_postal(a)
      [] tool_name = "get_shipping_quote" -> get_shipping_quote(a)

\* ------------------------------------------------------------------ state
\* world: "any" is a run against any server and the replies of Objects;
\* "mock" is a run against the server of main.py and the replies of
\* MockObjects, one object a reply.
VARIABLES
    world,
    variant,              \* "runner2" or "runner3": which run_agentic runs
    max_rounds,           \* the max_rounds argument
    pc,                   \* "loop", "objs", "check", "done", "raised"
    round_idx,            \* the round loop's index (0 before the first round)
    objs,                 \* objects extracted from this round's reply
    k,                    \* index in objs of the next object of `for obj in objs`
    tool_results_so_far,  \* the running context: one block per appended round
    tool_results_this_round,
    quotes,
    tool_history,
    result,               \* the returned dict, meaningful once pc = "done"
    prompts,              \* history: tool_results argument of each model query
    extracted,            \* history: every extracted object, with round and position
    handled,              \* history: what the loop body did with each object
    hist_at,              \* history: round and position behind each tool_history entry
    trace_id,             \* runner2: the run's trace_id; runner3 has none
    requests,             \* history: every requests.post of call_tool
    tape,                 \* history: the replies and remote answers the run was given
    parked,               \* two runs: the locals of the run that is not running
    active,               \* two runs: which of the two runs is running, 1 or 2
    segs,                 \* extract_json_objects: the pieces the input text is made of
    text,                 \* extract_json_objects: the input text, a sequence of characters
    scan_i,               \* extract_json_objects: the loop's i, the next character (from 1)
    scan_pc,              \* "off", "scan", "returned"
    sc2,                  \* runner2.extract_json_objects: start, depth, in_str, esc, objs
    sc3                   \* runner3.extract_json_objects: start, depth, in_str, esc, objs

runvars == <<world, variant, max_rounds, pc, round_idx, objs, k, tool_results_so_far,
             tool_results_this_round, quotes, tool_history, result, prompts,
             extracted, handled, hist_at, trace_id, requests, tape>>

scanvars == <<segs, text, scan_i, scan_pc, sc2, sc3>>

pairvars == <<parked, active>>

vars == <<runvars, scanvars, pairvars>>

NoResult == [http |-> NoHttp, json |-> ""]

\* no trace_id: runner3 has no correlation identifier, and its requests and
\* results carry none
NoTrace == ""

NotReturned ==
    [ok |-> FALSE, error |-> "", rounds_used |-> 0, quotes |-> <<>>,
     tool_history |-> <<>>, trace_id |-> NoTrace]

\* ------------------------------------------------------------- validation
\* ToolCall.model_validate: tool_name is one of the three literals and args
\* is a dict.
validate_toolcall(obj) ==
    /\ obj.tool_name \in ToolNames
    /\ obj.args.kind = "dict"

ResolverCountryArgs(a) ==
    /\ "name" \in a.keys
    /\ a.name_len >= MinNameLen

\* a faulty ResolverPostalArgs: country and city are required fields
ResolverPostalArgs_RequiresCountryCity(a) ==
    /\ {"country", "city"} \subseteq a.keys
    /\ "mode" \in a.keys => a.mode \in {"lookup_city", "validate_postal"}

ResolverPostalArgs(a) ==
    "mode" \in a.keys => a.mode \in {"lookup_city", "validate_postal"}

\* a faulty QuoteArgs: the limits of weight_kg are taken as allowed values
QuoteArgs_WeightInclusive(a) ==
    /\ "country" \in a.keys
    /\ a.country_len >= CountryLen /\ a.country_len <= CountryLen
    /\ "postal_code" \in a.keys
    /\ a.postal_len >= MinPostalLen /\ a.postal_len <= MaxPostalLen
    /\ "weight_kg" \in a.keys
    /\ a.weight_x10 >= MinWeightKg * 10 /\ a.weight_x10 <= MaxWeightKg * 10
    /\ ("service" \in a.keys => a.service \in {"standard", "express"})

QuoteArgs(a) ==
    /\ "country" \in a.keys
    /\ a.country_len >= CountryLen /\ a.country_len <= CountryLen
    /\ "postal_code" \in a.keys
    /\ a.postal_len >= MinPostalLen /\ a.postal_len <= MaxPostalLen
    /\ "weight_kg" \in a.keys
    /\ a.weight_x10 > MinWeightKg * 10 /\ a.weight_x10 < MaxWeightKg * 10
    /\ ("service" \in a.keys => a.service \in {"standard", "express"})

\* the per-tool branch of run_agentic (runner2)
ArgsValid(tool_name, a) ==
    CASE tool_name = "resolve_country" -> ResolverCountryArgs(a)
      [] tool_name = "resolve_postal_code" -> ResolverPostalArgs(a)
      [] tool_name = "get_shipping_quote" -> QuoteArgs(a)
      [] OTHER -> FALSE

\* ------------------------------------------------------------- call_tool
\* a requests.post: its path, its x-trace-id header (NoTrace: no such
\* header), and the round and position of the object it is made for
Request(path, trace, r, p) == [path |-> path, trace |-> trace, round |-> r, pos |-> p]

\* a faulty Path2: the two resolver endpoints are exchanged
Path2_Swapped(tool_name) ==
    CASE tool_name = "resolve_country" -> "/v1/resolve/postal"
      [] tool_name = "resolve_postal_code" -> "/v1/resolve/country"
      [] tool_name = "get_shipping_quote" -> "/v1/shipping/quote"

\* runner2.call_tool: the if/elif chain over tool_name
Path2(tool_name) ==
    CASE tool_name = "resolve_country" -> "/v1/resolve/country"
      [] tool_name = "resolve_postal_code" -> "/v1/resolve/postal"
      [] tool_name = "get_shipping_quote" -> "/v1/shipping/quote"

\* runner3.call_tool: tools[tool_name]["path"], the path under which the
\* OpenAPI document of main.py lists the operation id
Path3(tool_name) ==
    CASE tool_name = "resolve_country" -> "/v1/resolve/country"
      [] tool_name = "resolve_postal_code" -> "/v1/resolve/postal"
      [] tool_name = "get_shipping_quote" -> "/v1/shipping/quote"

\* the requests runner2.call_tool posts for a call: none for a name outside
\* the three, else one, with the run's trace_id as x-trace-id
call_tool2_posts(tool_name, tid, r, p) ==
    IF tool_name \notin ToolNames
    THEN <<>>
    ELSE <<Request(Path2(tool_name), tid, r, p)>>

\* the requests runner3.call_tool posts for a call: none for a name outside
\* tools, else one, without headers
call_tool3_posts(tool_name, r, p) ==
    IF tool_name \notin tools
    THEN <<>>
    ELSE <<Request(Path3(tool_name), NoTrace, r, p)>>

\* the entries of tape: a reply of the model, as the objects extracted from
\* it; a reply on which the extraction raises; an answer of the server
ReplyGiven(reply) == [kind |-> "reply", reply |-> reply, resp |-> Unreachable]
ReplyUndecodable == [kind |-> "undecodable", reply |-> <<>>, resp |-> Unreachable]
AnswerGiven(resp) == [kind |-> "answer", reply |-> <<>>, resp |-> resp]

\* runner2.call_tool, given the remote answer.  raises: requests.post is
\* outside the try block, so no answer is an exception in the caller.
call_tool2_raises(tool_name, resp) ==
    tool_name \in ToolNames /\ ~resp.reached

call_tool2(tool_name, resp) ==
    IF tool_name \notin ToolNames
    THEN [http |-> 400, json |-> "unknown_tool"]
    ELSE IF resp.body = "not_json"
         THEN [http |-> resp.status, json |-> "non-json-response"]
         ELSE [http |-> resp.status, json |-> resp.body]

\* runner3.call_tool.  raises: args.items() is evaluated before the try
\* block, so an args value that is no dict is an exception in the caller.
call_tool3_raises(tool_name, a) ==
    tool_name \in tools /\ a.kind # "dict"

call_tool3_requests(tool_name) == tool_name \in tools

call_tool3(tool_name, resp) ==
    IF tool_name \notin tools
    THEN [http |-> NoHttp, json |-> "Unknown tool"]
    ELSE IF ~resp.reached \/ resp.body = "not_json"
         THEN [http |-> HttpServerError, json |-> "exception"]
         ELSE [http |-> resp.status, json |-> resp.body]

\* ---------------------------------------------------- extract_json_objects
\* Characters are one-character strings; a text is a sequence of them.
LBrace == "{"
RBrace == "}"
Quote == "\""
Backslash == "\\"

\* start is None
None == 0

\* json.loads on a span, for texts over the characters { } " \ : , the
\* blank, letters and the digits 1 and 2: objects, strings with the escapes
\* \" and \\, and numbers made of digits.  Each Parse operator takes the text
\* and the index of the first character to read and gives the index after
\* what it read, 0 when the text does not parse (JSONDecodeError), or Raised
\* when the decoder gives up with another exception: an integer literal of
\* more digits than it converts (ValueError), as nesting beyond its recursion
\* limit does (RecursionError).
Raised == 0 - 1

Digits == {"1", "2"}

RECURSIVE SkipWs(_, _)
SkipWs(t, j) ==
    IF j <= Len(t) /\ t[j] = " " THEN SkipWs(t, j + 1) ELSE j

RECURSIVE StringEnd(_, _)
StringEnd(t, j) ==
    IF j > Len(t) THEN 0
    ELSE IF t[j] = Quote THEN j + 1
    ELSE IF t[j] = Backslash
         THEN IF j + 1 <= Len(t) /\ t[j + 1] \in {Quote, Backslash}
              THEN StringEnd(t, j + 2)
              ELSE 0
    ELSE StringEnd(t, j + 1)

ParseString(t, j) ==
    IF j >= 1 /\ j <= Len(t) /\ t[j] = Quote THEN StringEnd(t, j + 1) ELSE 0

RECURSIVE DigitsEnd(_, _)
DigitsEnd(t, j) ==
    IF j <= Len(t) /\ t[j] \in Digits THEN DigitsEnd(t, j + 1) ELSE j

ParseNumber(t, j) ==
    IF j >= 1 /\ j <= Len(t) /\ t[j] \in Digits
    THEN IF DigitsEnd(t, j + 1) - j > DigitLimit
         THEN Raised
         ELSE DigitsEnd(t, j + 1)
    ELSE 0

RECURSIVE ParseValue(_, _)
RECURSIVE ParseObject(_, _)
RECURSIVE ParseMembers(_, _)

ParseValue(t, j) ==
    IF j < 1 \/ j > Len(t) THEN 0
    ELSE IF t[j] = LBrace THEN ParseObject(t, j)
    ELSE IF t[j] = Quote THEN ParseString(t, j)
    ELSE ParseNumber(t, j)

\* one or more `string : value` pairs separated by commas, then the brace
ParseMembers(t, j) ==
    LET afterKey == ParseString(t, j)
        colon == IF afterKey = 0 THEN 0 ELSE SkipWs(t, afterKey)
        afterValue ==
            IF colon = 0 \/ colon > Len(t) \/ t[colon] # ":"
            THEN 0
            ELSE ParseValue(t, SkipWs(t, colon + 1))
        sep == IF afterValue <= 0 THEN afterValue ELSE SkipWs(t, afterValue)
    IN IF sep = Raised THEN Raised
       ELSE IF sep = 0 \/ sep > Len(t) THEN 0
       ELSE IF t[sep] = RBrace THEN sep + 1
       ELSE IF t[sep] = "," THEN ParseMembers(t, SkipWs(t, sep + 1))
       ELSE 0

ParseObject(t, j) ==
    IF j < 1 \/ j > Len(t) \/ t[j] # LBrace THEN 0
    ELSE LET first == SkipWs(t, j + 1)
         IN IF first > Len(t) THEN 0
            ELSE IF t[first] = RBrace THEN first + 1
            ELSE ParseMembers(t, first)

\* json.loads(chunk) does not raise
json_loads(chunk) == ParseObject(chunk, 1) = Len(chunk) + 1

\* json.loads(chunk) raises an exception that is no JSONDecodeError
json_loads_raises(chunk) == ParseObject(chunk, 1) = Raised

\* the scanner's locals before the first character; steps counts the
\* iterations of the loop that ran to their end
ScanStart ==
    [start |-> None, depth |-> 0, in_str |-> FALSE, esc |-> FALSE,
     objs |-> <<>>, spans |-> <<>>, raised |-> FALSE, steps |-> 0]

\* the span start..j is closed: json.loads on it, append on success, and
\* start = None.  spans is the history of every closed span; raised says
\* that json.loads left the try block with an exception other than
\* JSONDecodeError, for the except clause of the caller to take or not.
CloseSpan(s, t, j) ==
    [s EXCEPT !.depth = 0,
              !.raised = json_loads_raises(SubSeq(t, s.start, j)),
              !.objs = IF json_loads(SubSeq(t, s.start, j))
                       THEN Append(s.objs, SubSeq(t, s.start, j))
                       ELSE s.objs,
              !.spans = Append(s.spans, <<s.start, j>>),
              !.start = None]

\* a faulty InObject: braces are counted inside string literals too
InObject_CountsInStrings(s, t, j) ==
    LET ch == t[j] IN
    IF ch = LBrace THEN [s EXCEPT !.depth = s.depth + 1]
    ELSE IF ch = RBrace
         THEN IF s.depth - 1 = 0
              THEN CloseSpan(s, t, j)
              ELSE [s EXCEPT !.depth = s.depth - 1]
    ELSE s

\* a faulty InObject: every brace outside a string starts the span anew
InObject_EmitsInnermost(s, t, j) ==
    LET ch == t[j] IN
    IF s.in_str
    THEN IF s.esc THEN [s EXCEPT !.esc = FALSE]
         ELSE IF ch = Backslash THEN [s EXCEPT !.esc = TRUE]
         ELSE IF ch = Quote THEN [s EXCEPT !.in_str = FALSE]
         ELSE s
    ELSE IF ch = Quote THEN [s EXCEPT !.in_str = TRUE]
         ELSE IF ch = LBrace THEN [s EXCEPT !.start = j, !.depth = 1]
         ELSE IF ch = RBrace
              THEN IF s.depth - 1 = 0
                   THEN CloseSpan(s, t, j)
                   ELSE [s EXCEPT !.depth = s.depth - 1]
         ELSE s

\* a faulty InObject: a backslash in a string is an ordinary character
InObject_EscapeIgnored(s, t, j) ==
    LET ch == t[j] IN
    IF s.in_str
    THEN IF ch = Quote THEN [s EXCEPT !.in_str = FALSE] ELSE s
    ELSE IF ch = Quote THEN [s EXCEPT !.in_str = TRUE]
         ELSE IF ch = LBrace THEN [s EXCEPT !.depth = s.depth + 1]
         ELSE IF ch = RBrace
              THEN IF s.depth - 1 = 0
                   THEN CloseSpan(s, t, j)
                   ELSE [s EXCEPT !.depth = s.depth - 1]
         ELSE s

\* the part of the loop body that both scanners share: inside an object
InObject(s, t, j) ==
    LET ch == t[j] IN
    IF s.in_str
    THEN IF s.esc THEN [s EXCEPT !.esc = FALSE]
         ELSE IF ch = Backslash THEN [s EXCEPT !.esc = TRUE]
         ELSE IF ch = Quote THEN [s EXCEPT !.in_str = FALSE]
         ELSE s
    ELSE IF ch = Quote THEN [s EXCEPT !.in_str = TRUE]
         ELSE IF ch = LBrace THEN [s EXCEPT !.depth = s.depth + 1]
         ELSE IF ch = RBrace
              THEN IF s.depth - 1 = 0
                   THEN CloseSpan(s, t, j)
                   ELSE [s EXCEPT !.depth = s.depth - 1]
         ELSE s

\* runner2: one iteration of `for i, ch in enumerate(text)`.
\* `except json.JSONDecodeError` lets any other exception of json.loads
\* leave the function before `start = None`.
Step2(s, t, j) ==
    IF s.start = None
    THEN IF t[j] = LBrace
         THEN [s EXCEPT !.start = j, !.depth = 1, !.in_str = FALSE, !.esc = FALSE]
         ELSE s
    ELSE IF InObject(s, t, j).raised
         THEN [InObject(s, t, j) EXCEPT !.start = s.start]
         ELSE InObject(s, t, j)

\* runner3: one iteration of `for i, ch in enumerate(text)`.
\* The bare `except:` takes every exception of json.loads.
Step3(s, t, j) ==
    IF s.start = None
    THEN IF t[j] = LBrace
         THEN [s EXCEPT !.start = j, !.depth = 1]
         ELSE s
    ELSE [InObject(s, t, j) EXCEPT !.raised = FALSE]

\* a faulty ReturnValue: a span still open at the end of the text is returned too
ReturnValue_FlushesOpen(s, t) ==
    IF s.start # None THEN Append(s.objs, SubSeq(t, s.start, Len(t))) ELSE s.objs

\* return objs
ReturnValue(s, t) == s.objs

\* the run_agentic model leaves the scanner's variables alone
ScanOff ==
    /\ segs = <<>>
    /\ text = <<>>
    /\ scan_i = 1
    /\ scan_pc = "off"
    /\ sc2 = ScanStart
    /\ sc3 = ScanStart

\* ------------------------------------------------------------ run_agentic
Event(tool_name, a, res, r) ==
    [tool_name |-> tool_name, args |-> a, result |-> res, round |-> r]

\* an entry of tool_results_this_round: an event, or a recorded failure
EventEntry(ev) == [is_event |-> TRUE, event |-> ev, error |-> ""]
FailureEntry(tool_name, a, err) ==
    [is_event |-> FALSE, event |-> Event(tool_name, a, NoResult, 0), error |-> err]

Handled(obj, outcome) ==
    [round |-> round_idx, pos |-> k, obj |-> obj, outcome |-> outcome]

\* a faulty AppendHistory: the event is put in front of the list
AppendHistory_Prepend(h, ev) == <<ev>> \o h

AppendHistory(h, ev) == Append(h, ev)

\* a faulty AppendQuote: the quote keeps the run's trace_id as its response
AppendQuote_StampsTrace(q, tool_name, a, res) ==
    IF tool_name = "get_shipping_quote" /\ res.http = HttpOk
    THEN Append(q, [args |-> a, response |-> trace_id])
    ELSE q

\* a faulty AppendQuote: the HTTP status is not looked at
AppendQuote_AnyStatus(q, tool_name, a, res) ==
    IF tool_name = "get_shipping_quote"
    THEN Append(q, [args |-> a, response |-> res.json])
    ELSE q

AppendQuote(q, tool_name, a, res) ==
    IF tool_name = "get_shipping_quote" /\ res.http = HttpOk
    THEN Append(q, [args |-> a, response |-> res.json])
    ELSE q

\* The context tool_results_so_far is a string built of one block
\* "\nRound r:\n" + json.dumps(results) a round; it is modelled as the
\* sequence of its blocks, the empty string being the empty sequence.  A text
\* given to the model is the sentinel or the blocks of a context.
Text(sentinel, blocks) == [sentinel |-> sentinel, blocks |-> blocks]

EmptyString == Text("", <<>>)

\* a faulty PromptText: the context is passed as it is
PromptText_Raw(ctx) == Text("", ctx)

\* tool_results_so_far if tool_results_so_far else "(keine bisherigen Aufrufe)"
PromptText(ctx) == IF ctx # <<>> THEN Text("", ctx) ELSE Text(Sentinel, <<>>)

Block(r, results) == [round |-> r, results |-> results]

\* a faulty AppendContext: the context is the last round's block alone
AppendContext_Replace(ctx, r, results) == <<Block(r, results)>>

\* tool_results_so_far += f"\nRound {round_idx}:\n{json.dumps(...)}"
AppendContext(ctx, r, results) == Append(ctx, Block(r, results))

\* trace_id = str(uuid.uuid4()): any identifier; one value stands for all in
\* a run alone, two where two runs are told apart
TraceIds == {"trace-a", "trace-b"}
uuid4 == IF world = "pair" THEN TraceIds ELSE {"trace-a"}
RunTraceIds(v) == IF v = "runner2" THEN uuid4 ELSE {NoTrace}

\* tape is kept where two runs are compared, and left empty elsewhere
Taped(tp, entry) == IF world = "pair" THEN Append(tp, entry) ELSE tp

\* two runs: the replies are of one object, a valid quote call, an invalid
\* one, a resolver call or an object without tool_name; the server answers
\* 200 or not at all
PairObjects ==
    { Obj("get_shipping_quote", ArgsQuoteA),
      Obj("get_shipping_quote", ArgsQuoteHeavy),
      Obj("resolve_country", ArgsCountry),
      Obj("", ArgsCountry) }

PairResponses ==
    { Unreachable, [reached |-> TRUE, status |-> HttpOk, body |-> "payload"] }

\* one run only: nothing is parked
NoRun == <<>>

\* the replies of the model and the answers of the server, by world
Replies ==
    CASE world = "mock" -> SeqsUpTo(MockObjects, 1) \cup MockQuotePairs
      [] world = "pair" -> SeqsUpTo(PairObjects, 1)
      [] OTHER -> SeqsUpTo(Objects, MaxObjs)

Remote(tool_name, a) ==
    CASE world = "mock" -> MockServer(tool_name, a)
      [] world = "pair" -> PairResponses
      [] OTHER -> Responses

Init ==
    /\ world = "any"
    /\ variant \in {"runner2", "runner3"}
    /\ max_rounds \in (0 - 1)..MaxRounds
    /\ pc = "loop"
    /\ round_idx = 0
    /\ objs = <<>>
    /\ k = 1
    /\ tool_results_so_far = <<>>
    /\ tool_results_this_round = <<>>
    /\ quotes = <<>>
    /\ tool_history = <<>>
    /\ result = NotReturned
    /\ prompts = <<>>
    /\ extracted = <<>>
    /\ handled = <<>>
    /\ hist_at = <<>>
    /\ trace_id \in RunTraceIds(variant)
    /\ requests = <<>>
    /\ tape = <<>>
    /\ parked = NoRun
    /\ active = 1
    /\ ScanOff

\* a faulty RangeHasNext: the loop body runs once whatever max_rounds is
RangeHasNext_AtLeastOnce(r, mr) == r < mr \/ r = 0

\* range(1, max_rounds + 1) has a value after r (r = 0 before the first)
RangeHasNext(r, mr) == r + 1 < mr + 1

\* for round_idx in range(1, max_rounds + 1): the model query and the
\* extraction of its reply.
Query ==
    /\ pc = "loop"
    /\ RangeHasNext(round_idx, max_rounds)
    /\ \E reply \in Replies :
        /\ objs' = reply
        /\ extracted' = extracted \o
              [i \in 1..Len(reply) |->
                  [round |-> round_idx + 1, pos |-> i, obj |-> reply[i]]]
        /\ tape' = Taped(tape, ReplyGiven(reply))
    /\ round_idx' = round_idx + 1
    /\ prompts' = Append(prompts, PromptText(tool_results_so_far))
    /\ tool_results_this_round' = <<>>
    /\ k' = 1
    /\ pc' = "objs"
    /\ UNCHANGED <<scanvars, pairvars>>
    /\ UNCHANGED <<world, variant, max_rounds, trace_id, tool_results_so_far, quotes,
                   tool_history, result, handled, hist_at, requests>>

\* runner2: json.loads leaves extract_json_objects with an exception that is
\* no JSONDecodeError, on a reply holding a span the decoder gives up on;
\* nothing in run_agentic catches it.
QueryRaises2 ==
    /\ pc = "loop"
    /\ RangeHasNext(round_idx, max_rounds)
    /\ variant = "runner2"
    /\ round_idx' = round_idx + 1
    /\ prompts' = Append(prompts, PromptText(tool_results_so_far))
    /\ tape' = Taped(tape, ReplyUndecodable)
    /\ pc' = "raised"
    /\ UNCHANGED <<scanvars, pairvars>>
    /\ UNCHANGED <<world, variant, max_rounds, trace_id, objs, k, tool_results_so_far,
                   tool_results_this_round, quotes, tool_history, result,
                   extracted, handled, hist_at, requests>>

\* runner2: one iteration of `for obj in objs` whose object fails
\* validate_toolcall or its per-tool argument model.
Reject2 ==
    /\ pc = "objs" /\ variant = "runner2" /\ k <= Len(objs)
    /\ LET obj == objs[k] IN
        /\ ~(validate_toolcall(obj) /\ ArgsValid(obj.tool_name, obj.args))
        /\ tool_results_this_round' = Append(tool_results_this_round,
              IF validate_toolcall(obj)
              THEN FailureEntry(obj.tool_name, obj.args, "args_schema_error")
              ELSE FailureEntry("", obj.args, "toolcall_schema_error"))
        /\ handled' = Append(handled, Handled(obj, "rejected"))
    /\ k' = k + 1
    /\ UNCHANGED <<scanvars, pairvars>>
    /\ UNCHANGED <<world, variant, max_rounds, trace_id, pc, round_idx, objs, tool_results_so_far,
                   quotes, tool_history, result, prompts, extracted, hist_at,
                   requests, tape>>

\* runner2: one iteration whose object is valid: call_tool, the event, the
\* quote.
Invoke2 ==
    /\ pc = "objs" /\ variant = "runner2" /\ k <= Len(objs)
    /\ LET obj == objs[k] IN
        /\ validate_toolcall(obj) /\ ArgsValid(obj.tool_name, obj.args)
        /\ requests' = requests \o call_tool2_posts(obj.tool_name, trace_id, round_idx, k)
        /\ \E resp \in Remote(obj.tool_name, obj.args) :
          /\ tape' = Taped(tape, AnswerGiven(resp))
          /\
            IF call_tool2_raises(obj.tool_name, resp)
            THEN /\ pc' = "raised"
                 /\ handled' = Append(handled, Handled(obj, "raised"))
                 /\ UNCHANGED <<k, tool_results_this_round, quotes,
                                tool_history, hist_at>>
            ELSE LET res == call_tool2(obj.tool_name, resp)
                     ev == Event(obj.tool_name, obj.args, res, round_idx)
                 IN /\ tool_history' = AppendHistory(tool_history, ev)
                    /\ hist_at' = Append(hist_at, [round |-> round_idx, pos |-> k])
                    /\ tool_results_this_round' =
                          Append(tool_results_this_round, EventEntry(ev))
                    /\ quotes' = AppendQuote(quotes, obj.tool_name, obj.args, res)
                    /\ handled' = Append(handled, Handled(obj, "invoked"))
                    /\ k' = k + 1
                    /\ pc' = pc
    /\ UNCHANGED <<scanvars, pairvars>>
    /\ UNCHANGED <<world, variant, max_rounds, trace_id, round_idx, objs, tool_results_so_far,
                   result, prompts, extracted>>

\* runner3: `if not tool_name: continue`.
Skip3 ==
    /\ pc = "objs" /\ variant = "runner3" /\ k <= Len(objs)
    /\ objs[k].tool_name = ""
    /\ handled' = Append(handled, Handled(objs[k], "skipped"))
    /\ k' = k + 1
    /\ UNCHANGED <<scanvars, pairvars>>
    /\ UNCHANGED <<world, variant, max_rounds, trace_id, pc, round_idx, objs, tool_results_so_far,
                   tool_results_this_round, quotes, tool_history, result,
                   prompts, extracted, hist_at, requests, tape>>

\* runner3: one iteration whose object has a tool_name: call_tool, the
\* event, the quote.  An absent "args" key reads as the empty dict.
Invoke3 ==
    /\ pc = "objs" /\ variant = "runner3" /\ k <= Len(objs)
    /\ objs[k].tool_name # ""
    /\ LET obj == objs[k]
           a == IF obj.args.kind = "absent" THEN ArgsEmpty ELSE obj.args
       IN \E resp \in Remote(obj.tool_name, obj.args) :
            IF call_tool3_raises(obj.tool_name, a)
            THEN /\ pc' = "raised"
                 /\ handled' = Append(handled, Handled(obj, "raised"))
                 /\ UNCHANGED <<k, tool_results_this_round, quotes,
                                tool_history, hist_at, requests, tape>>
            ELSE LET res == call_tool3(obj.tool_name, resp)
                     ev == Event(obj.tool_name, a, res, 0)
                 IN /\ tool_history' = AppendHistory(tool_history, ev)
                    /\ hist_at' = Append(hist_at, [round |-> round_idx, pos |-> k])
                    /\ tool_results_this_round' =
                          Append(tool_results_this_round, EventEntry(ev))
                    /\ quotes' = AppendQuote(quotes, obj.tool_name, a, res)
                    /\ handled' = Append(handled, Handled(obj,
                          IF call_tool3_requests(obj.tool_name)
                          THEN "invoked" ELSE "local_error"))
                    /\ requests' = requests \o call_tool3_posts(obj.tool_name, round_idx, k)
                    /\ tape' = IF call_tool3_requests(obj.tool_name)
                               THEN Taped(tape, AnswerGiven(resp))
                               ELSE tape
                    /\ k' = k + 1
                    /\ pc' = pc
    /\ UNCHANGED <<scanvars, pairvars>>
    /\ UNCHANGED <<world, variant, max_rounds, trace_id, round_idx, objs, tool_results_so_far,
                   result, prompts, extracted>>

\* a faulty ForDone: the loop over the objects ends after its first object
ForDone_AfterFirst(kk, os) == kk > 1 \/ kk > Len(os)

\* `for obj in objs` has no further object
ForDone(kk, os) == kk > Len(os)

\* `for obj in objs` is exhausted.
EndObjs ==
    /\ pc = "objs" /\ ForDone(k, objs)
    /\ pc' = "check"
    /\ UNCHANGED <<scanvars, pairvars>>
    /\ UNCHANGED <<world, variant, max_rounds, trace_id, round_idx, objs, k, tool_results_so_far,
                   tool_results_this_round, quotes, tool_history, result,
                   prompts, extracted, handled, hist_at, requests, tape>>

\* a faulty Concludes2: a round with a failed quote does not conclude
Concludes2_UnlessOneFailed ==
    /\ quotes # <<>>
    /\ \A n \in 1..Len(tool_results_this_round) :
          (tool_results_this_round[n].is_event
           /\ tool_results_this_round[n].event.tool_name = "get_shipping_quote") =>
              tool_results_this_round[n].event.result.http = HttpOk

\* runner2: `if quotes:`.
Concludes2 == quotes # <<>>

\* runner3: quote_calls and len(quote_ok) == len(quote_calls).
quote_calls == SelectSeq(tool_results_this_round,
    LAMBDA e : e.is_event /\ e.event.tool_name = "get_shipping_quote")
quote_ok == SelectSeq(quote_calls, LAMBDA q : q.event.result.http = HttpOk)
Concludes3 == quote_calls # <<>> /\ Len(quote_ok) = Len(quote_calls)

Concludes == IF variant = "runner2" THEN Concludes2 ELSE Concludes3

\* the return inside the loop
Success ==
    /\ pc = "check"
    /\ Concludes
    /\ result' = [ok |-> TRUE, error |-> "", rounds_used |-> round_idx,
                  quotes |-> quotes, tool_history |-> tool_history,
                  trace_id |-> trace_id]
    /\ pc' = "done"
    /\ UNCHANGED <<scanvars, pairvars>>
    /\ UNCHANGED <<world, variant, max_rounds, trace_id, round_idx, objs, k, tool_results_so_far,
                   tool_results_this_round, quotes, tool_history, prompts,
                   extracted, handled, hist_at, requests, tape>>

\* tool_results_so_far += "\nRound {round_idx}:\n" + json.dumps(...)
NextRound ==
    /\ pc = "check"
    /\ ~Concludes
    /\ tool_results_so_far' =
          AppendContext(tool_results_so_far, round_idx, tool_results_this_round)
    /\ pc' = "loop"
    /\ UNCHANGED <<scanvars, pairvars>>
    /\ UNCHANGED <<world, variant, max_rounds, trace_id, round_idx, objs, k,
                   tool_results_this_round, quotes, tool_history, result,
                   prompts, extracted, handled, hist_at, requests, tape>>

ExhaustedError ==
    IF variant = "runner2" THEN "no_quote_within_max_rounds" ELSE "max_rounds"

\* the return after the loop
Exhausted ==
    /\ pc = "loop"
    /\ ~RangeHasNext(round_idx, max_rounds)
    /\ result' = [ok |-> FALSE, error |-> ExhaustedError,
                  rounds_used |-> max_rounds, quotes |-> <<>>,
                  tool_history |-> tool_history, trace_id |-> trace_id]
    /\ pc' = "done"
    /\ UNCHANGED <<scanvars, pairvars>>
    /\ UNCHANGED <<world, variant, max_rounds, trace_id, round_idx, objs, k, tool_results_so_far,
                   tool_results_this_round, quotes, tool_history, prompts,
                   extracted, handled, hist_at, requests, tape>>

Next ==
    \/ Query
    \/ QueryRaises2
    \/ Reject2
    \/ Invoke2
    \/ Skip3
    \/ Invoke3
    \/ EndObjs
    \/ Success
    \/ NextRound
    \/ Exhausted

Spec == Init /\ [][Next]_vars

\* ------------------------------------------------------------- two runs
\* the locals of the running call of run_agentic, with its histories
Locals ==
    [variant |-> variant, max_rounds |-> max_rounds, pc |-> pc,
     round_idx |-> round_idx, objs |-> objs, k |-> k,
     tool_results_so_far |-> tool_results_so_far,
     tool_results_this_round |-> tool_results_this_round,
     quotes |-> quotes, tool_history |-> tool_history, result |-> result,
     prompts |-> prompts, extracted |-> extracted, handled |-> handled,
     hist_at |-> hist_at, trace_id |-> trace_id, requests |-> requests,
     tape |-> tape]

\* the locals of a call that has run up to its loop: tool_results_so_far = "",
\* quotes = [], tool_history = []
FreshRun(v, mr, tid) ==
    [variant |-> v, max_rounds |-> mr, pc |-> "loop", round_idx |-> 0,
     objs |-> <<>>, k |-> 1, tool_results_so_far |-> <<>>,
     tool_results_this_round |-> <<>>, quotes |-> <<>>, tool_history |-> <<>>,
     result |-> NotReturned, prompts |-> <<>>, extracted |-> <<>>,
     handled |-> <<>>, hist_at |-> <<>>, trace_id |-> tid, requests |-> <<>>,
     tape |-> <<>>]

\* a faulty Resume: tool_history and quotes are one list for both runs
Resume_SharedLists(own, other) ==
    [own EXCEPT !.tool_history = other.tool_history, !.quotes = other.quotes]

\* the locals a call goes on with after the other call has run: its own
Resume(own, other) == own

InitPair ==
    /\ world = "pair"
    /\ active = 1
    /\ \E v1 \in {"runner2", "runner3"}, v2 \in {"runner2", "runner3"},
          mr1 \in 1..MaxRounds, mr2 \in 1..MaxRounds :
        \E t1 \in RunTraceIds(v1), t2 \in RunTraceIds(v2) :
          /\ parked = FreshRun(v2, mr2, t2)
          /\ variant = v1
          /\ max_rounds = mr1
          /\ trace_id = t1
    /\ pc = "loop"
    /\ round_idx = 0
    /\ objs = <<>>
    /\ k = 1
    /\ tool_results_so_far = <<>>
    /\ tool_results_this_round = <<>>
    /\ quotes = <<>>
    /\ tool_history = <<>>
    /\ result = NotReturned
    /\ prompts = <<>>
    /\ extracted = <<>>
    /\ handled = <<>>
    /\ hist_at = <<>>
    /\ requests = <<>>
    /\ tape = <<>>
    /\ ScanOff

\* the other call of run_agentic gets to run
Switch ==
    /\ world = "pair"
    /\ active' = 3 - active
    /\ parked' = Locals
    /\ LET r == Resume(parked, Locals) IN
        /\ variant' = r.variant
        /\ max_rounds' = r.max_rounds
        /\ pc' = r.pc
        /\ round_idx' = r.round_idx
        /\ objs' = r.objs
        /\ k' = r.k
        /\ tool_results_so_far' = r.tool_results_so_far
        /\ tool_results_this_round' = r.tool_results_this_round
        /\ quotes' = r.quotes
        /\ tool_history' = r.tool_history
        /\ result' = r.result
        /\ prompts' = r.prompts
        /\ extracted' = r.extracted
        /\ handled' = r.handled
        /\ hist_at' = r.hist_at
        /\ trace_id' = r.trace_id
        /\ requests' = r.requests
        /\ tape' = r.tape
    /\ UNCHANGED <<world, scanvars>>

NextPair ==
    \/ Query
    \/ QueryRaises2
    \/ Reject2
    \/ Invoke2
    \/ Skip3
    \/ Invoke3
    \/ EndObjs
    \/ Success
    \/ NextRound
    \/ Exhausted
    \/ Switch

SpecPair == InitPair /\ [][NextPair]_vars

\* ------------------------------------------- runner2 against main.py
InitMock ==
    /\ world = "mock"
    /\ variant = "runner2"
    /\ max_rounds \in 1..MaxRounds
    /\ pc = "loop"
    /\ round_idx = 0
    /\ objs = <<>>
    /\ k = 1
    /\ tool_results_so_far = <<>>
    /\ tool_results_this_round = <<>>
    /\ quotes = <<>>
    /\ tool_history = <<>>
    /\ result = NotReturned
    /\ prompts = <<>>
    /\ extracted = <<>>
    /\ handled = <<>>
    /\ hist_at = <<>>
    /\ trace_id \in RunTraceIds(variant)
    /\ requests = <<>>
    /\ tape = <<>>
    /\ parked = NoRun
    /\ active = 1
    /\ ScanOff

NextMock ==
    \/ Query
    \/ QueryRaises2
    \/ Reject2
    \/ Invoke2
    \/ EndObjs
    \/ Success
    \/ NextRound
    \/ Exhausted

SpecMock == InitMock /\ [][NextMock]_vars

\* ------------------------------------------- extract_json_objects, stepwise
\* The input texts: up to MaxSegs pieces, each a JSON object or narration.
Piece(kind, chars) == [kind |-> kind, chars |-> chars]

ObjectPieces ==
    { Piece("object", <<"{", "\"", "a", "\"", ":", "1", "}">>),
      Piece("object", <<"{", "\"", "a", "\"", ":", "{", "\"", "a", "\"", ":", "1", "}", "}">>),
      Piece("object", <<"{", "\"", "}", "\"", ":", "1", "}">>),
      Piece("object", <<"{", "\"", "{", "\"", ":", " ", "\"", "\\", "\"", "\"", "}">>),
      Piece("object", <<"{", "\"", "\\", "\\", "\"", ":", "1", ",", "\"", "a", "\"", ":", "1", "}">>),
      Piece("object", <<"{", "}">>) }

\* well-formed JSON whose integer has more digits than the decoder converts
OverlongPieces ==
    { Piece("object", <<"{", "\"", "a", "\"", ":">> \o [n \in 1..(DigitLimit + 1) |-> "1"] \o <<"}">>) }

NarrationPieces ==
    { Piece("narration", <<"a", " ">>),
      Piece("narration", <<"}", "\"">>),
      Piece("narration", <<"\\", ":">>),
      Piece("narration", <<"{", "a", "}">>),
      Piece("narration", <<"{", "\"", "a", "}">>),
      Piece("narration", <<"a", "{">>) }

Pieces == ObjectPieces \cup OverlongPieces \cup NarrationPieces

\* every text of up to MaxRawLen of the characters the scanner tells apart
RawChars == {"{", "}", "\"", "\\", "a"}
RawTexts == SeqsUpTo(RawChars, MaxRawLen)

\* foo {"a":1} bar {"b":{"c":2}} baz
ExampleTwoObjects ==
    <<"f", "o", "o", " ", "{", "\"", "a", "\"", ":", "1", "}", " ", "b", "a", "r", " ",
      "{", "\"", "b", "\"", ":", "{", "\"", "c", "\"", ":", "2", "}", "}", " ",
      "b", "a", "z">>

\* {"x":1
ExampleUnterminated == <<"{", "\"", "x", "\"", ":", "1">>

InputTexts ==
    SeqsUpTo(Pieces, MaxSegs)
    \cup { <<Piece("raw", t)>> : t \in RawTexts }
    \cup { <<Piece("raw", ExampleTwoObjects)>>, <<Piece("raw", ExampleUnterminated)>> }

RECURSIVE Flatten(_)
Flatten(ps) == IF ps = <<>> THEN <<>> ELSE Head(ps).chars \o Flatten(Tail(ps))

InitScan ==
    /\ world = "any"
    /\ segs \in InputTexts
    /\ text = Flatten(segs)
    /\ scan_i = 1
    /\ scan_pc = "scan"
    /\ sc2 = ScanStart
    /\ sc3 = ScanStart
    /\ variant = "runner2"
    /\ max_rounds = 0
    /\ pc = "off"
    /\ round_idx = 0
    /\ objs = <<>>
    /\ k = 1
    /\ tool_results_so_far = <<>>
    /\ tool_results_this_round = <<>>
    /\ quotes = <<>>
    /\ tool_history = <<>>
    /\ result = NotReturned
    /\ prompts = <<>>
    /\ extracted = <<>>
    /\ handled = <<>>
    /\ hist_at = <<>>
    /\ trace_id \in RunTraceIds(variant)
    /\ requests = <<>>
    /\ tape = <<>>
    /\ parked = NoRun
    /\ active = 1

\* an iteration of `for i, ch in enumerate(text)` that an exception left
\* did not run to its end
IterationDone(s) == IF s.raised THEN s ELSE [s EXCEPT !.steps = s.steps + 1]

\* one character, read by both scanners
ScanStep ==
    /\ scan_pc = "scan"
    /\ scan_i <= Len(text)
    /\ sc2' = IF sc2.raised THEN sc2 ELSE IterationDone(Step2(sc2, text, scan_i))
    /\ sc3' = IterationDone(Step3(sc3, text, scan_i))
    /\ scan_i' = scan_i + 1
    /\ UNCHANGED <<segs, text, scan_pc>>
    /\ UNCHANGED <<runvars, pairvars>>

\* return objs (runner2 has left by its exception if sc2.raised)
ScanReturn ==
    /\ scan_pc = "scan"
    /\ scan_i > Len(text)
    /\ scan_pc' = "returned"
    /\ sc2' = IF sc2.raised THEN sc2 ELSE [sc2 EXCEPT !.objs = ReturnValue(sc2, text)]
    /\ sc3' = [sc3 EXCEPT !.objs = ReturnValue(sc3, text)]
    /\ UNCHANGED <<segs, text, scan_i>>
    /\ UNCHANGED <<runvars, pairvars>>

NextScan ==
    \/ ScanStep
    \/ ScanReturn

SpecScan == InitScan /\ [][NextScan]_vars

\* =================================================================== claims
IsPrefix(s, t) == Len(s) <= Len(t) /\ SubSeq(t, 1, Len(s)) = s

Range(s) == { s[i] : i \in 1..Len(s) }

\* the tool_history indices of the get_shipping_quote events of round r
QuoteEvents(r) ==
    { i \in 1..Len(tool_history) :
        hist_at[i].round = r /\ tool_history[i].tool_name = "get_shipping_quote" }

\* the completion rule for round r: at least one get_shipping_quote call was
\* invoked in it and every one of them answered 200
RoundComplete(r) ==
    /\ QuoteEvents(r) # {}
    /\ \A i \in QuoteEvents(r) : tool_history[i].result.http = HttpOk

\* the validator of the specification: operation name, argument mapping and
\* the per-operation field contract
Valid(obj) == validate_toolcall(obj) /\ ArgsValid(obj.tool_name, obj.args)

\* the round (r, p) object's entry in `handled`, if the loop body reached it
HandledAt(r, p) == { h \in Range(handled) : h.round = r /\ h.pos = p }

\* C1: a round in which no get_shipping_quote call was invoked, or in which
\* an invoked get_shipping_quote call did not answer 200, never ends the run
\* with ok = true.
C1_IncompleteRoundNeverSucceeds ==
    (pc = "done" /\ result.ok) => RoundComplete(result.rounds_used)

\* C2: a round that satisfies the completion rule ends the run in that round
\* with ok = true and rounds_used = the round, no later round is queried, and
\* a returned result has ok = true iff its last round satisfied the rule.
C2_CompleteRoundEndsRun ==
    /\ (pc = "loop" /\ round_idx >= 1) => ~RoundComplete(round_idx)
    /\ \A r \in 1..(round_idx - 1) : ~RoundComplete(r)
    /\ (pc = "done" /\ round_idx >= 1) =>
          /\ result.ok <=> RoundComplete(round_idx)
          /\ result.ok => result.rounds_used = round_idx
          /\ Len(prompts) = round_idx

\* C3: when no round satisfies the completion rule the result is ok = false,
\* error "no_quote_within_max_rounds", rounds_used = max_rounds, with the
\* invocations of every round in tool_history.
C3_ExhaustionResult ==
    (pc = "done" /\ max_rounds >= 1
        /\ \A r \in 1..max_rounds : ~RoundComplete(r)) =>
          /\ ~result.ok
          /\ result.error = "no_quote_within_max_rounds"
          /\ result.rounds_used = max_rounds
          /\ \A h \in Range(handled) : h.outcome = "invoked" =>
                \E i \in 1..Len(result.tool_history) :
                    hist_at[i] = [round |-> h.round, pos |-> h.pos]

\* C4: every run ends in SUCCESS or EXHAUSTED (never by an exception) after
\* at most max_rounds model queries; the round index counts the queries and
\* rounds_used is in 1..max_rounds and is the number of queries made.
C4_RunEndsWithinBudget ==
    max_rounds >= 1 =>
        /\ pc \in {"loop", "objs", "check", "done"}
        /\ Len(prompts) <= max_rounds
        /\ round_idx = Len(prompts)
        /\ pc = "done" =>
              /\ result.rounds_used \in 1..max_rounds
              /\ result.rounds_used = Len(prompts)

\* C5: call_tool never propagates an exception to run_agentic: every object
\* handed to it gets a recorded result and the loop goes on.
C5_CallToolNeverRaises ==
    \A h \in Range(handled) : h.outcome # "raised"

\* C6: within a round every extracted object is processed, in extraction
\* order: whatever happened to the i-th object (a validation failure, a failed
\* invocation), once the round's loop is left the (i+1)-th object has been
\* validated and, if valid, invoked.
C6_EveryObjectProcessed ==
    \A i \in 1..Len(extracted) :
        LET e == extracted[i] IN
        (/\ e.pos > 1
         /\ HandledAt(e.round, e.pos - 1) # {}
         /\ (e.round < round_idx \/ pc # "objs")) =>
            \E h \in HandledAt(e.round, e.pos) :
                Valid(e.obj) => h.outcome = "invoked"

\* C7: an extracted object that fails validation is never passed to
\* call_tool and has a failure entry in the returned history.
C7_InvalidObjectsRecorded ==
    \A i \in 1..Len(extracted) :
        ~Valid(extracted[i].obj) =>
            /\ \A h \in HandledAt(extracted[i].round, extracted[i].pos) :
                  h.outcome \in {"rejected"}
            /\ pc = "done" =>
                  \E j \in 1..Len(result.tool_history) :
                      hist_at[j] = [round |-> extracted[i].round,
                                    pos |-> extracted[i].pos]

\* order of two (round, position) stamps
Before(a, b) == a.round < b.round \/ (a.round = b.round /\ a.pos < b.pos)

\* the extracted object behind stamp a
ObjectAt(a) ==
    { e.obj : e \in { x \in Range(extracted) : x.round = a.round /\ x.pos = a.pos } }

HistoryOrdered ==
    /\ Len(hist_at) = Len(tool_history)
    /\ \A i \in 1..Len(tool_history) :
          /\ \E o \in ObjectAt(hist_at[i]) :
                tool_history[i].tool_name = o.tool_name
          /\ variant = "runner2" => tool_history[i].round = hist_at[i].round
          /\ \A j \in 1..Len(tool_history) :
                i < j => Before(hist_at[i], hist_at[j])
    /\ pc = "done" => result.tool_history = tool_history

\* C8: tool_history is append-only, and in every state and in the returned
\* result it lists the events in order of rounds and, within a round, in
\* extraction order; an appended entry is never removed, moved or changed.
C8_HistoryAppendOnly ==
    /\ []HistoryOrdered
    /\ [][IsPrefix(tool_history, tool_history')]_vars

C8_Witness ==
    /\ pc = "done"
    /\ Len(result.tool_history) >= 3
    /\ hist_at[1].round = 1 /\ hist_at[2].round = 1 /\ hist_at[3].round = 2

\* the quotes that a history stands for
SuccessfulQuotes(h) ==
    SelectSeq(h, LAMBDA e :
        e.tool_name = "get_shipping_quote" /\ e.result.http = HttpOk)

QuotesOf(h) ==
    [i \in 1..Len(SuccessfulQuotes(h)) |->
        [args |-> SuccessfulQuotes(h)[i].args,
         response |-> SuccessfulQuotes(h)[i].result.json]]

\* round 1 extracted exactly one object, a valid get_shipping_quote call,
\* and its invocation answered 200
RoundOneSingleQuote ==
    /\ { e \in Range(extracted) : e.round = 1 } =
          { [round |-> 1, pos |-> 1, obj |-> extracted[1].obj] }
    /\ Valid(extracted[1].obj)
    /\ extracted[1].obj.tool_name = "get_shipping_quote"
    /\ Len(tool_history) >= 1
    /\ hist_at[1] = [round |-> 1, pos |-> 1]
    /\ tool_history[1].result.http = HttpOk

\* C9: in every state the quotes accumulator is, in order, exactly the
\* successful get_shipping_quote events of tool_history with their arguments
\* and returned payload; a run whose round-1 reply is one valid, successfully
\* invoked get_shipping_quote call returns ok = true, rounds_used = 1 and
\* one quote.
C9_QuotesMirrorHistory ==
    /\ quotes = QuotesOf(tool_history)
    /\ (pc = "done" /\ result.ok) => result.quotes = QuotesOf(result.tool_history)
    /\ (Len(extracted) >= 1 /\ RoundOneSingleQuote /\ pc \in {"loop", "done"}) =>
          /\ pc = "done"
          /\ result.ok
          /\ result.rounds_used = 1
          /\ Len(result.quotes) = 1

C9_Witness ==
    /\ pc = "done"
    /\ Len(extracted) >= 1 /\ RoundOneSingleQuote
    /\ result.ok /\ Len(result.quotes) = 1

\* the scan of a whole text by runner2's loop, from local state s at index j
RECURSIVE ScanFrom(_, _, _)
ScanFrom(s, t, j) ==
    IF j > Len(t) \/ s.raised THEN s ELSE ScanFrom(Step2(s, t, j), t, j + 1)

\* a narration piece that leaves no brace span open: it has no '{', or each
\* span a '{' opens in it is closed again before the piece ends
LeavesNoSpanOpen(chars) == ScanFrom(ScanStart, chars, 1).start = None

ObjectSegs == SelectSeq(segs, LAMBDA p : p.kind = "object")

\* the k well-formed object spans of the text, left to right
ExpectedObjects == [n \in 1..Len(ObjectSegs) |-> ObjectSegs[n].chars]

\* the text is made of object spans and narration only, and each object
\* span is well formed: json.loads accepts it
Interleaved ==
    \A n \in 1..Len(segs) :
        \/ segs[n].kind = "narration"
        \/ segs[n].kind = "object" /\ json_loads(segs[n].chars)

C11_ExtractNeverRaises ==
    /\ ~sc2.raised
    /\ ~sc3.raised

\* what one character ch does to a scanner, from state s to state n
StringMachine(s, n, ch) ==
    /\ n.depth # s.depth => ~s.in_str /\ ch \in {LBrace, RBrace}
    /\ (s.in_str /\ ~n.in_str) => ch = Quote /\ ~s.esc
    /\ (s.in_str /\ s.esc) => n.in_str /\ ~n.esc
    /\ (s.in_str /\ ~s.esc /\ ch = Backslash) => n.in_str /\ n.esc
    /\ (s.in_str /\ ~s.esc /\ ch = Quote) => ~n.in_str
    /\ n.esc => s.in_str /\ ~s.esc /\ ch = Backslash
    /\ (~s.in_str /\ n.in_str) => ch = Quote /\ s.start # None

\* C12: the brace depth changes only on a brace read outside a string
\* literal; a string literal is left only at a quote with no active escape,
\* and a backslash in a string makes exactly the next character literal.
C12_BracesCountOutsideStrings ==
    [][(scan_pc = "scan" /\ scan_i' = scan_i + 1) =>
          /\ StringMachine(sc2, sc2', text[scan_i])
          /\ StringMachine(sc3, sc3', text[scan_i])]_vars

\* both scanners returned an object with a brace and an escaped quote inside
\* strings, and one whose key is an escaped backslash right before the quote
C12_Witness ==
    /\ scan_pc = "returned"
    /\ Interleaved
    /\ \E j \in 2..(Len(text) - 1) :
          text[j - 1] = Quote /\ text[j] = Backslash /\ text[j + 1] = Quote
    /\ \E j \in 2..(Len(text) - 2) :
          text[j - 1] = Quote /\ text[j] = Backslash /\ text[j + 1] = Backslash /\ text[j + 2] = Quote
    /\ \E j \in 2..(Len(text) - 1) :
          text[j - 1] = Quote /\ text[j] = LBrace /\ text[j + 1] = Quote
    /\ Len(sc2.objs) = 2 /\ sc2.objs = ExpectedObjects
    /\ sc3.objs = ExpectedObjects

\* the texts of the spans a scanner closed, in the order it closed them
SpanTexts(s) == [n \in 1..Len(s.spans) |-> SubSeq(text, s.spans[n][1], s.spans[n][2])]

\* the spans follow one another without overlap, each from a brace to a brace
SpansDisjoint(s) ==
    /\ \A n \in 1..Len(s.spans) :
          /\ s.spans[n][1] < s.spans[n][2]
          /\ text[s.spans[n][1]] = LBrace
          /\ text[s.spans[n][2]] = RBrace
    /\ \A n \in 1..(Len(s.spans) - 1) : s.spans[n][2] < s.spans[n + 1][1]

OutermostOnly(s) ==
    /\ Len(s.objs) <= Len(s.spans)
    /\ SpansDisjoint(s)
    /\ ~s.raised => s.objs = SelectSeq(SpanTexts(s), json_loads)

\* {"a":1} and {"b":{"c":2}}
ExampleFirst == SubSeq(ExampleTwoObjects, 5, 11)
ExampleSecond == SubSeq(ExampleTwoObjects, 17, 29)

\* C13: one value per outermost brace span: the objects returned are the
\* texts of disjoint closed spans, never more than the times the depth came
\* back to zero, and foo {"a":1} bar {"b":{"c":2}} baz gives exactly the two
\* objects {"a":1} and {"b":{"c":2}}.
C13_OneValuePerOutermostSpan ==
    /\ scan_pc # "off" => OutermostOnly(sc2) /\ OutermostOnly(sc3)
    /\ (scan_pc = "returned" /\ text = ExampleTwoObjects) =>
          /\ sc2.objs = <<ExampleFirst, ExampleSecond>>
          /\ sc3.objs = <<ExampleFirst, ExampleSecond>>

C13_Witness ==
    /\ scan_pc = "returned"
    /\ text = ExampleTwoObjects
    /\ Len(sc2.objs) = 2
    /\ Len(sc2.spans) = 2

\* what a scanner that has read the whole text returns comes from closed spans
ClosedSpansOnly(s) ==
    /\ \A n \in 1..Len(s.objs) :
          \E m \in 1..Len(s.spans) :
              /\ s.spans[m][2] <= Len(text)
              /\ text[s.spans[m][2]] = RBrace
              /\ s.objs[n] = SubSeq(text, s.spans[m][1], s.spans[m][2])
    /\ (s.start # None /\ s.spans = <<>>) => s.objs = <<>>

\* C14: a span whose depth never comes back to zero before the end of the
\* text contributes no object: only closed spans are returned, and nothing
\* when the only span is unterminated, as for {"x":1
C14_UnterminatedSpanDropped ==
    scan_pc = "returned" =>
        /\ ~sc2.raised => ClosedSpansOnly(sc2)
        /\ ClosedSpansOnly(sc3)
        /\ text = ExampleUnterminated => sc2.objs = <<>> /\ sc3.objs = <<>>

C14_Witness ==
    /\ scan_pc = "returned"
    /\ text = ExampleUnterminated
    /\ sc2.start = 1 /\ sc2.depth = 1
    /\ sc2.objs = <<>>

\* ------------------------------------------------------------ validation
\* the (round, position) stamp of a handled object
Stamp(h) == [round |-> h.round, pos |-> h.pos]

\* runner2: the handled object was recorded as a failure and not invoked:
\* no event of tool_history is its, and its entry of the round's results,
\* and of the context once the round is appended, is a failure
RecordedNotInvoked(h) ==
    /\ h.outcome = "rejected"
    /\ \A j \in 1..Len(hist_at) : hist_at[j] # Stamp(h)
    /\ (h.round = round_idx /\ pc \in {"objs", "check"}) =>
          ~tool_results_this_round[h.pos].is_event
    /\ Len(tool_results_so_far) >= h.round =>
          ~tool_results_so_far[h.round].results[h.pos].is_event

\* the handled object was passed to call_tool and its event is in tool_history
InvokedAndRecorded(h) ==
    /\ h.outcome = "invoked"
    /\ \E j \in 1..Len(hist_at) :
          /\ hist_at[j] = Stamp(h)
          /\ tool_history[j].tool_name = h.obj.tool_name
          /\ tool_history[j].args = h.obj.args

\* the fields of a get_shipping_quote call other than weight_kg are valid
QuoteFieldsBesideWeight(a) ==
    /\ {"country", "postal_code"} \subseteq a.keys
    /\ a.country_len = 2
    /\ a.postal_len >= 3 /\ a.postal_len <= 12
    /\ "service" \in a.keys => a.service \in {"standard", "express"}

\* weights are in tenths of a kilogram: 0 < weight_kg < 50
WeightInRange(a) == a.weight_x10 > 0 /\ a.weight_x10 < 500

\* C15: the validator of runner2 accepts the weight_kg of a
\* get_shipping_quote call iff 0 < weight_kg < 50, both limits excluded: a
\* call with weight 0 or 50 is recorded as a failure and not invoked, a call
\* with weight 49.9 and valid other fields is invoked.
C15_WeightStrictlyBetween ==
    \A h \in Range(handled) :
        (/\ h.obj.tool_name = "get_shipping_quote"
         /\ h.obj.args.kind = "dict"
         /\ "weight_kg" \in h.obj.args.keys) =>
            /\ ~WeightInRange(h.obj.args) => RecordedNotInvoked(h)
            /\ (WeightInRange(h.obj.args) /\ QuoteFieldsBesideWeight(h.obj.args)) =>
                  InvokedAndRecorded(h)

\* a run that rejected a 50 kg call in round 1 and invoked a 49.9 kg call in
\* round 2
C15_Witness ==
    /\ pc = "done"
    /\ Len(handled) = 2
    /\ handled[1].obj.tool_name = "get_shipping_quote"
    /\ handled[1].obj.args.weight_x10 = 500
    /\ QuoteFieldsBesideWeight(handled[1].obj.args)
    /\ handled[1].outcome = "rejected"
    /\ handled[2].obj.tool_name = "get_shipping_quote"
    /\ handled[2].obj.args.weight_x10 = 499
    /\ handled[2].outcome = "invoked"
    /\ Len(tool_history) = 1

\* the contract of a get_shipping_quote call: country of exactly 2
\* characters, postal_code of 3 to 12, weight_kg strictly between 0 and 50,
\* service standard or express, or absent
QuoteContract(a) ==
    /\ a.kind = "dict"
    /\ {"country", "postal_code", "weight_kg"} \subseteq a.keys
    /\ a.country_len = 2
    /\ a.postal_len >= 3 /\ a.postal_len <= 12
    /\ WeightInRange(a)
    /\ "service" \in a.keys => a.service \in {"standard", "express"}

\* the handled object never reached call_tool and no event is its
NeverInvoked(h) ==
    /\ h.outcome \in {"rejected"}
    /\ \A j \in 1..Len(hist_at) : hist_at[j] # Stamp(h)

\* C16: a get_shipping_quote call is invoked only if its arguments satisfy
\* the contract; a call violating it is recorded as a validation failure
\* and no remote call is made for it.
C16_QuoteInvokedOnlyIfValid ==
    \A h \in Range(handled) :
        (h.obj.tool_name = "get_shipping_quote" /\ ~QuoteContract(h.obj.args)) =>
            NeverInvoked(h)

\* C17: an object whose operation name is none of the three, or that has no
\* argument mapping, is rejected by the validator; every call passed to
\* call_tool and every event of tool_history bears one of the three names.
C17_OnlyKnownOperationsInvoked ==
    /\ \A h \in Range(handled) :
          (h.obj.tool_name \notin ToolNames \/ h.obj.args.kind # "dict") =>
              NeverInvoked(h)
    /\ \A j \in 1..Len(tool_history) : tool_history[j].tool_name \in ToolNames

\* the mode of a resolve_postal_code call; lookup_city when the key is absent
ModeOf(a) == IF "mode" \in a.keys THEN a.mode ELSE "lookup_city"

\* a lookup_city request that lacks country or city (absent or empty)
LacksCountryOrCity(a) ==
    /\ ModeOf(a) = "lookup_city"
    /\ \/ "country" \notin a.keys \/ a.country_len = 0
       \/ "city" \notin a.keys \/ a.city_len = 0

\* the event of the handled object, where it is in tool_history
EventsOf(h) == { tool_history[j] : j \in { n \in 1..Len(hist_at) : hist_at[n] = Stamp(h) } }

MissingAnswer == [http |-> 200, json |-> "missing_country_or_city"]

\* the handled object's entry of the context, once its round is appended
ContextEntry(h) == tool_results_so_far[h.round].results[h.pos]

ShapeOnly ==
    \A h \in Range(handled) :
        (h.obj.tool_name = "resolve_postal_code" /\ h.obj.args.kind = "dict") =>
            /\ ModeOf(h.obj.args) \in {"lookup_city", "validate_postal"} =>
                  InvokedAndRecorded(h)
            /\ ModeOf(h.obj.args) \notin {"lookup_city", "validate_postal"} =>
                  RecordedNotInvoked(h)
            /\ (h.outcome = "invoked" /\ LacksCountryOrCity(h.obj.args)) =>
                  /\ \A ev \in EventsOf(h) : ev.result = MissingAnswer
                  /\ pc = "done" => result.error # "missing_country_or_city"
                  /\ Len(tool_results_so_far) >= h.round =>
                        /\ ContextEntry(h).is_event
                        /\ ContextEntry(h).event.result = MissingAnswer

\* C18: for resolve_postal_code the validator of runner2 checks the mode
\* only: a call that omits country, city or value is accepted and invoked;
\* the server answers a lookup_city request lacking country or city with
\* missing_country_or_city, which becomes the result of the call's event,
\* and the run goes on.
C18_PostalShapeOnly ==
    /\ []ShapeOnly
    /\ [][(Len(handled') > Len(handled)
           /\ handled'[Len(handled')].obj.tool_name = "resolve_postal_code"
           /\ handled'[Len(handled')].outcome = "invoked"
           /\ LacksCountryOrCity(handled'[Len(handled')].obj.args)) =>
              /\ pc' = "objs"
              /\ result' = NotReturned
              /\ Len(tool_history') = Len(tool_history) + 1
              /\ tool_history'[Len(tool_history')].result = MissingAnswer]_vars

\* round 1 invoked resolve_postal_code with no argument at all, the server
\* answered missing_country_or_city, and round 2 has been queried
C18_Witness ==
    /\ world = "mock"
    /\ round_idx = 2
    /\ Len(handled) >= 1
    /\ handled[1].round = 1
    /\ handled[1].obj.tool_name = "resolve_postal_code"
    /\ handled[1].obj.args.kind = "dict"
    /\ handled[1].obj.args.keys = {}
    /\ handled[1].outcome = "invoked"
    /\ Len(tool_history) >= 1 /\ Len(tool_results_so_far) >= 1
    /\ tool_history[1].result = MissingAnswer
    /\ tool_results_so_far[1].results[1].event.result = MissingAnswer

EntriesOf(r) ==
    SelectSeq(handled, LAMBDA h :
        h.round = r /\ h.outcome \in {"invoked", "rejected", "local_error"})

\* block b holds the results of round r: an event for each invoked object
\* and a failure for each rejected one, in extraction order
BlockOfRound(b, r) ==
    /\ b.round = r
    /\ Len(b.results) = Len(EntriesOf(r))
    /\ \A n \in 1..Len(b.results) :
          /\ b.results[n].is_event <=> EntriesOf(r)[n].outcome # "rejected"
          /\ b.results[n].is_event =>
                b.results[n].event.tool_name = EntriesOf(r)[n].obj.tool_name
          /\ EntriesOf(r)[n].obj.args.kind = "dict" =>
                b.results[n].event.args = EntriesOf(r)[n].obj.args
          /\ n > 1 => EntriesOf(r)[n - 1].pos < EntriesOf(r)[n].pos

ContextOrdered ==
    /\ Len(tool_results_so_far) =
          IF pc \in {"loop", "done"} /\ ~(pc = "done" /\ result.ok) THEN round_idx ELSE round_idx - 1
    /\ \A r \in 1..Len(tool_results_so_far) : BlockOfRound(tool_results_so_far[r], r)
    /\ \A r \in 2..Len(prompts) :
          /\ IsPrefix(prompts[r].blocks, tool_results_so_far)
          /\ IsPrefix(prompts[r - 1].blocks, prompts[r].blocks)

\* C20: the running context only grows: the results of a round that does
\* not conclude the run are appended under the round's index, so the
\* context of round r has one block a round 1..r-1, in order, and is a
\* prefix of the context of round r+1.
C20_ContextOnlyGrows ==
    /\ []ContextOrdered
    /\ [][IsPrefix(tool_results_so_far, tool_results_so_far')]_vars

\* two rounds were appended; round 1 holds an invoked event and a recorded
\* failure
C20_Witness ==
    /\ Len(tool_results_so_far) = 2
    /\ Len(tool_results_so_far[1].results) = 2
    /\ \E n \in 1..2 : tool_results_so_far[1].results[n].is_event
    /\ \E n \in 1..2 : ~tool_results_so_far[1].results[n].is_event
    /\ Len(prompts) = 2
    /\ Len(prompts[2].blocks) = 1

\* ------------------------------------------------------------------- runs
\* C21: the correlation identifier is chosen at the start of the run, is
\* sent with every remote invocation of the run, and is the trace_id of the
\* returned result.
C21_TraceIdAccompaniesRun ==
    /\ \A n \in 1..Len(requests) :
          requests[n].trace # NoTrace /\ requests[n].trace = trace_id
    /\ pc = "done" =>
          result.trace_id # NoTrace /\ result.trace_id = trace_id

\* the two runs of SpecPair: the running one and the parked one
Terminal(L) == L.pc \in {"done", "raised"}

\* a result without its correlation identifier
Blind(res) == [res EXCEPT !.trace_id = NoTrace]

\* both runs were given the same max_rounds, the same replies and the same
\* remote answers
SameInputs(A, B) ==
    /\ A.variant = B.variant
    /\ A.max_rounds = B.max_rounds
    /\ A.tape = B.tape

InvokedBy(L) == SelectSeq(L.handled, LAMBDA h : h.outcome \in {"invoked", "local_error"})

\* the events of tool_history that are quotes answered with 200
QuotedIn(L) ==
    SelectSeq(L.tool_history, LAMBDA e :
        e.tool_name = "get_shipping_quote" /\ e.result.http = 200)

\* what run L holds is what L itself extracted, invoked and was answered:
\* its history has one event for each object it invoked, in order, its
\* quotes are the quoted events of its own history, the events of its
\* context are events of its own history, and its result is made of them
OwnStateOnly(L) ==
    /\ Len(L.tool_history) = Len(InvokedBy(L))
    /\ \A n \in 1..Len(L.tool_history) :
          /\ L.tool_history[n].tool_name = InvokedBy(L)[n].obj.tool_name
          /\ L.tool_history[n].args = InvokedBy(L)[n].obj.args
          /\ L.hist_at[n] = [round |-> InvokedBy(L)[n].round, pos |-> InvokedBy(L)[n].pos]
    /\ Len(L.quotes) = Len(QuotedIn(L))
    /\ \A n \in 1..Len(L.quotes) :
          /\ L.quotes[n].args = QuotedIn(L)[n].args
          /\ L.quotes[n].response = QuotedIn(L)[n].result.json
    /\ \A b \in 1..Len(L.tool_results_so_far) :
          \A n \in 1..Len(L.tool_results_so_far[b].results) :
              L.tool_results_so_far[b].results[n].is_event =>
                  \E m \in 1..Len(L.tool_history) :
                      /\ L.tool_history[m] = L.tool_results_so_far[b].results[n].event
                      /\ L.hist_at[m].round = b
    /\ L.pc = "done" =>
          /\ L.result.tool_history = L.tool_history
          /\ L.result.ok => L.result.quotes = L.quotes
          /\ L.result.trace_id = L.trace_id

\* C23: two interleaved runs share no state: a step of one run leaves the
\* other run's tool_history, quotes, context and result as they are, a
\* change of the running call changes neither, and what each run holds is
\* made of its own events only.
C23_RunsShareNoState ==
    /\ [](world = "pair" => OwnStateOnly(Locals) /\ OwnStateOnly(parked))
    /\ [][world = "pair" =>
             IF active' = active
             THEN parked' = parked
             ELSE parked' = Locals /\ Locals' = parked]_vars

\* both runs are in their second round, each after a first round with an
\* invoked call, and hold different histories
C23_Witness ==
    /\ world = "pair"
    /\ active = 2
    /\ pc = "objs" /\ parked.pc = "objs"
    /\ round_idx = 2 /\ parked.round_idx = 2
    /\ Len(tool_history) = 1 /\ Len(parked.tool_history) = 1
    /\ tool_history # parked.tool_history
    /\ Len(tool_results_so_far) = 1 /\ Len(parked.tool_results_so_far) = 1

\* ---------------------------------------------------------------- rounds
\* the handled entries of the object extracted as e
HandledOf(e) == { h \in Range(handled) : h.round = e.round /\ h.pos = e.pos }

\* the loop body is through with the object extracted as e: it was looked
\* at once and, if it was invoked, its event is in tool_history and among
\* the results of its round
Settled(e) ==
    /\ \E h \in HandledOf(e) :
          /\ HandledOf(e) = {h}
          /\ h.obj = e.obj
          /\ h.outcome \in {"rejected", "invoked", "skipped", "local_error"}
          /\ h.outcome \in {"invoked", "local_error"} =>
                \E j \in 1..Len(hist_at) :
                    /\ hist_at[j] = Stamp(h)
                    /\ tool_history[j].tool_name = e.obj.tool_name
                    /\ Len(tool_results_so_far) >= e.round =>
                          \E n \in 1..Len(tool_results_so_far[e.round].results) :
                              tool_results_so_far[e.round].results[n] = EventEntry(tool_history[j])

\* the request was answered and its event recorded
Answered(rq) ==
    \E j \in 1..Len(hist_at) : hist_at[j] = [round |-> rq.round, pos |-> rq.pos]

RoundsInSequence ==
    /\ \A e \in Range(extracted) : e.round < Len(prompts) => Settled(e)
    /\ \A n \in 1..Len(requests) :
          /\ n < Len(requests) =>
                /\ Answered(requests[n])
                /\ Before(requests[n], requests[n + 1])
          /\ pc # "raised" => Answered(requests[n])

\* C24: rounds of a run never overlap: the model is queried for round r+1
\* only after every object extracted in round r has been validated and, if
\* valid, invoked and its result recorded, and a remote invocation is
\* answered before the next one of the round is made.
C24_RoundsNeverOverlap ==
    /\ []RoundsInSequence
    /\ [][Len(prompts') > Len(prompts) =>
             /\ pc = "loop"
             /\ \A e \in Range(extracted) : Settled(e)
             /\ Len(tool_results_so_far) = round_idx]_vars

\* round 2 is under way after a round 1 of two objects, one rejected and
\* one invoked
C24_Witness ==
    /\ world = "any"
    /\ variant = "runner2"
    /\ Len(prompts) = 2
    /\ pc = "objs"
    /\ Len(SelectSeq(extracted, LAMBDA e : e.round = 1)) = 2
    /\ \E h \in Range(handled) : h.round = 1 /\ h.outcome = "rejected"
    /\ \E h \in Range(handled) : h.round = 1 /\ h.outcome = "invoked"
    /\ Len(requests) = 1

\* the requests made for the object extracted as e
RequestsFor(e) == { n \in 1..Len(requests) : requests[n].round = e.round /\ requests[n].pos = e.pos }

\* the extracted objects that pass validation
ValidExtracted == SelectSeq(extracted, LAMBDA e : Valid(e.obj))

\* C25: the round loop is the only retry: an extracted object is invoked at
\* most once, a failed invocation is not made again, and when the run is
\* over the remote invocations are as many as the validated objects
\* extracted in its rounds.
C25_EachValidCallInvokedOnce ==
    variant = "runner2" =>
        /\ \A e \in Range(extracted) :
              \A n \in RequestsFor(e), m \in RequestsFor(e) : n = m
        /\ pc \in {"done", "raised"} => Len(requests) = Len(ValidExtracted)

\* --------------------------------------------------------------- endpoints
\* the endpoint of each operation
EndpointOf(name) ==
    CASE name = "resolve_country" -> "/v1/resolve/country"
      [] name = "resolve_postal_code" -> "/v1/resolve/postal"
      [] name = "get_shipping_quote" -> "/v1/shipping/quote"

\* the names call_tool is tried with: the three operations and two others
NamesTried == ToolNames \cup {"foo", "resolve"}

\* the object a request was made for
RequestedObject(rq) == { e.obj : e \in { x \in Range(extracted) : x.round = rq.round /\ x.pos = rq.pos } }

\* C26: call_tool posts a call of one of the three operations to that
\* operation's endpoint and to no other, and for any other name returns an
\* error result without a request.
C26_EndpointPerOperation ==
    /\ \A name \in NamesTried :
          IF name \in {"resolve_country", "resolve_postal_code", "get_shipping_quote"}
          THEN /\ Len(call_tool2_posts(name, trace_id, 1, 1)) = 1
               /\ call_tool2_posts(name, trace_id, 1, 1)[1].path = EndpointOf(name)
               /\ Len(call_tool3_posts(name, 1, 1)) = 1
               /\ call_tool3_posts(name, 1, 1)[1].path = EndpointOf(name)
          ELSE /\ call_tool2_posts(name, trace_id, 1, 1) = <<>>
               /\ call_tool2(name, Unreachable).json = "unknown_tool"
               /\ ~call_tool2_raises(name, Unreachable)
               /\ call_tool3_posts(name, 1, 1) = <<>>
               /\ call_tool3(name, Unreachable).json = "Unknown tool"
    /\ \A n \in 1..Len(requests) :
          \E o \in RequestedObject(requests[n]) :
              /\ o.tool_name \in {"resolve_country", "resolve_postal_code", "get_shipping_quote"}
              /\ requests[n].path = EndpointOf(o.tool_name)
    /\ \A h \in Range(handled) :
          (h.outcome \in {"invoked", "local_error"}
           /\ h.obj.tool_name \notin {"resolve_country", "resolve_postal_code", "get_shipping_quote"}) =>
              /\ \A n \in 1..Len(requests) : Stamp(h) # [round |-> requests[n].round, pos |-> requests[n].pos]
              /\ \A ev \in EventsOf(h) : ev.result.json = "Unknown tool"

\* a runner3 round that called call_tool with the name foo, without a
\* request, and then with get_shipping_quote, with a request to its endpoint
C26_Witness ==
    /\ variant = "runner3"
    /\ Len(handled) = 2
    /\ handled[1].obj.tool_name = "foo" /\ handled[1].outcome = "local_error"
    /\ handled[2].obj.tool_name = "get_shipping_quote" /\ handled[2].outcome = "invoked"
    /\ Len(requests) = 1
    /\ requests[1].path = "/v1/shipping/quote"
    /\ requests[1].pos = 2

\* ------------------------------------------------------- quotes and rounds
\* the rounds in which the successful quote invocations of the run were made
QuoteRounds ==
    { hist_at[i].round : i \in { n \in 1..Len(tool_history) :
          /\ tool_history[n].tool_name = "get_shipping_quote"
          /\ tool_history[n].result.http = HttpOk } }

\* C27: in runner2 the quotes list is empty whenever a round starts, and the
\* quotes of a successful result are those invoked in the round the result
\* names as rounds_used; in runner3 the quotes of a successful result are
\* those of all rounds of the run.
C27_Runner2QuotesFromFinalRound ==
    /\ variant = "runner2" =>
          /\ pc = "loop" => quotes = <<>>
          /\ (pc = "done" /\ result.ok) =>
                /\ result.quotes # <<>>
                /\ result.quotes = QuotesOf(result.tool_history)
                /\ QuoteRounds = {result.rounds_used}
                /\ \A ev \in Range(SuccessfulQuotes(result.tool_history)) :
                      ev.round = result.rounds_used
    /\ (variant = "runner3" /\ pc = "done" /\ result.ok) =>
          /\ result.quotes = QuotesOf(result.tool_history)
          /\ result.rounds_used \in QuoteRounds

\* a successful result of runner3 that holds a quote of round 1, which did
\* not conclude, beside the quote of round 2
C27_Witness ==
    /\ variant = "runner3"
    /\ pc = "done" /\ result.ok
    /\ result.rounds_used = 2
    /\ QuoteRounds = {1, 2}
    /\ Len(result.quotes) = 2

\* ------------------------------------------------------ the two scanners
\* the scanner state the two functions are compared on
ScanState(s) == <<s.start, s.depth, s.in_str, s.esc>>

\* C28: after every character read, runner2's and runner3's scanners are in
\* the same (start, depth, in_str, esc) state and have captured the same
\* spans and the same values, in the same order.
C28_ScannersEquivalent ==
    scan_pc # "off" =>
        /\ ScanState(sc2) = ScanState(sc3)
        /\ sc2.spans = sc3.spans
        /\ sc2.objs = sc3.objs

\* ------------------------------------------ the two contracts of a quote
\* the quote invocations of this round and those of them that succeeded
QuotesInvokedThisRound ==
    SelectSeq(tool_results_this_round,
        LAMBDA e : e.is_event /\ e.event.tool_name = "get_shipping_quote")

\* the canonical completion rule: a quote was invoked this round and every
\* quote invoked this round succeeded
CanonicalConcludes ==
    /\ QuotesInvokedThisRound # <<>>
    /\ \A n \in 1..Len(QuotesInvokedThisRound) :
          QuotesInvokedThisRound[n].event.result.http = HttpOk

\* C29: against the server of main.py, QuoteArgs and ShippingQuoteRequest
\* accept the same argument records, every quote call that runner2 invokes
\* is answered 200, and at the end of every round runner2's rule and the
\* canonical rule decide alike, on the same quotes.
C29_ContractsAgreeAndRulesCoincide ==
    /\ \A a \in QuoteArgsSamples : QuoteArgs(a) <=> ShippingQuoteRequest(a)
    /\ \A h \in Range(handled) :
          (h.outcome = "invoked" /\ h.obj.tool_name = "get_shipping_quote") =>
              \A ev \in EventsOf(h) : ev.result.http = HttpOk
    /\ pc = "check" =>
          /\ Concludes2 <=> CanonicalConcludes
          /\ Len(quotes) = Len(QuotesInvokedThisRound)
    /\ (pc = "done" /\ result.ok) =>
          /\ CanonicalConcludes
          /\ result.rounds_used = round_idx
          /\ Len(result.quotes) = Len(QuotesInvokedThisRound)

\* a round of two quote calls, one of them just under the weight limit, both
\* valid locally and both answered 200, that ends the run
C29_Witness ==
    /\ pc = "done" /\ result.ok
    /\ Len(objs) = 2
    /\ objs[1].args.weight_x10 = MaxWeightKg * 10 - 1
    /\ objs[2].args.weight_x10 = MinWeightKg * 10 + 1
    /\ Len(result.quotes) = 2
    /\ Len(QuotesInvokedThisRound) = 2

\* --------------------------------------------------- no rounds to run
\* C30: a run with max_rounds <= 0 queries the model never and invokes
\* nothing, and returns ok = false, an empty tool_history and
\* rounds_used = max_rounds.
C30_NoRoundsNoWork ==
    max_rounds <= 0 =>
        /\ pc \in {"loop", "done", "off"}
        /\ round_idx = 0
        /\ prompts = <<>>
        /\ extracted = <<>>
        /\ requests = <<>>
        /\ handled = <<>>
        /\ pc = "done" =>
              /\ ~result.ok
              /\ result.tool_history = <<>>
              /\ result.rounds_used = max_rounds
              /\ result.rounds_used \notin 1..MaxRounds

\* the result of a run with max_rounds = -1
C30_Witness ==
    /\ pc = "done"
    /\ max_rounds = 0 - 1
    /\ result.rounds_used = 0 - 1
    /\ ~result.ok
    /\ result.error = ExhaustedError

\* ------------------------------------------------- the scanner's states
\* the flags and the depth fit the place of the scanner in the text
ScanStateConsistent(s) ==
    /\ s.esc => s.in_str
    /\ s.in_str => s.start # None
    /\ s.start # None => s.depth >= 1
    /\ s.start = None => (~s.in_str /\ ~s.esc)

\* the last character read closed a span
JustClosed(s) ==
    s.spans # <<>> /\ s.spans[Len(s.spans)][2] = scan_i - 1

\* one transition for each character read, Len(text) of them at the return
OneStepPerCharacter(s) ==
    /\ scan_pc = "scan" => s.steps = scan_i - 1
    /\ scan_pc = "returned" => s.steps = Len(text)

ScannerInvariant(s) ==
    /\ ScanStateConsistent(s)
    /\ JustClosed(s) => (s.start = None /\ ~s.in_str /\ ~s.esc)
    /\ OneStepPerCharacter(s)

\* C31: in every state of the scan, of runner2 and of runner3, esc is set
\* only in a string, in_str only in an object, depth is at least 1 while
\* start is set, both flags are false right after a span is closed, and
\* the scan has made one step for each character read.
C31_ScannerStateInvariant ==
    scan_pc # "off" => (ScannerInvariant(sc2) /\ ScannerInvariant(sc3))

====
